---------------------------- MODULE Spec2Model ----------------------------
(***************************************************************************)
(* A model of the plugin manager: plugin.py (discover / update / sync),    *)
(* plugin_url.py (the version resolver and its three lookup strategies)    *)
(* and the final sweep of plugin_config.py.                                *)
(*                                                                         *)
(* Text is modelled as sequences of one-character strings, so that the     *)
(* regular expressions, split(), strip(), basename() and the glob match    *)
(* are computed the way the code computes them.                            *)
(***************************************************************************)
EXTENDS Integers, Sequences, FiniteSets, TLC

(***************************************************************************)
(* Bounds of the model                                                     *)
(***************************************************************************)
\* longest directory listing drawn for the installed-state inspector
MaxListing == 2
\* most releases in a release-hosting response
MaxReleases == 2
\* most files a target directory holds when a run starts
MaxInitFiles == 2

(***************************************************************************)
(* Characters and text                                                     *)
(***************************************************************************)
\* Python's None, and a local name no assignment has bound yet: neither is a text
\* (a text is a sequence of one-character strings)
None == <<"None">>
Unbound == <<"Unbound">>

DigitChars == <<"0", "1", "2", "3", "4", "5", "6", "7", "8", "9">>
LowerChars == <<"a", "b", "c", "d", "e", "f", "g", "h", "i", "j", "k", "l", "m",
                "n", "o", "p", "q", "r", "s", "t", "u", "v", "w", "x", "y", "z">>
UpperChars == <<"A", "B", "C", "D", "E", "F", "G", "H", "I", "J", "K", "L", "M",
                "N", "O", "P", "Q", "R", "S", "T", "U", "V", "W", "X", "Y", "Z">>

Range(s) == {s[i] : i \in 1..Len(s)}

DigitSet == Range(DigitChars)
UpperSet == Range(UpperChars)
AlphaSet == Range(LowerChars) \cup Range(UpperChars)
\* [-\w] without the hyphen
WordSet == DigitSet \cup AlphaSet \cup {"_"}
\* [a-zA-Z0-9\-]
NameSet == DigitSet \cup AlphaSet \cup {"-"}
\* [0-9\-\.]
VersionSet == DigitSet \cup {"-", "."}

\* \d
IsDigit(c) == c \in DigitSet
\* [a-zA-Z]
IsAlpha(c) == c \in AlphaSet
\* \w
IsWord(c) == IsDigit(c) \/ IsAlpha(c) \/ c = "_"
\* str.isspace for the characters the model uses
IsSpace(c) == c \in {" ", "\n", "\t"}

DigitVal(c) == (CHOOSE i \in 1..10 : DigitChars[i] = c) - 1

LowerChar(c) ==
    IF c \in UpperSet
    THEN LowerChars[CHOOSE i \in 1..26 : UpperChars[i] = c]
    ELSE c

\* str.lower()
lower(s) == [i \in 1..Len(s) |-> LowerChar(s[i])]

\* s[a..b] (1-based, inclusive), empty when b < a
Slice(s, a, b) == IF b < a THEN <<>> ELSE SubSeq(s, a, b)

\* s.startswith(p) at offset i (1-based)
MatchAt(s, i, p) ==
    /\ i >= 1
    /\ i + Len(p) - 1 <= Len(s)
    /\ \A k \in 1..Len(p) : s[i + k - 1] = p[k]

\* sub in s
Contains(s, sub) == \E i \in 1..(Len(s) + 1) : MatchAt(s, i, sub)

\* s.endswith(p)
EndsWith(s, p) == Len(p) <= Len(s) /\ MatchAt(s, Len(s) - Len(p) + 1, p)

\* s.startswith(p)
StartsWith(s, p) == MatchAt(s, 1, p)

\* str.strip()
strip(s) ==
    LET keep == {i \in 1..Len(s) : ~IsSpace(s[i])}
    IN  IF keep = {} THEN <<>>
        ELSE LET a == CHOOSE i \in keep : \A j \in keep : i <= j
                 b == CHOOSE i \in keep : \A j \in keep : i >= j
             IN  SubSeq(s, a, b)

\* str.rstrip("/")
RECURSIVE rstripSlash(_)
rstripSlash(s) ==
    IF Len(s) > 0 /\ s[Len(s)] = "/" THEN rstripSlash(SubSeq(s, 1, Len(s) - 1)) ELSE s

\* str.split(sep) for a one-character separator: always at least one part
RECURSIVE SplitFrom(_, _, _, _)
SplitFrom(s, sep, i, cur) ==
    IF i > Len(s) THEN <<cur>>
    ELSE IF s[i] = sep THEN <<cur>> \o SplitFrom(s, sep, i + 1, <<>>)
    ELSE SplitFrom(s, sep, i + 1, Append(cur, s[i]))

split(s, sep) == SplitFrom(s, sep, 1, <<>>)

\* str.split(sep, 1)
split1(s, sep) ==
    LET hits == {i \in 1..Len(s) : s[i] = sep}
    IN  IF hits = {} THEN <<s>>
        ELSE LET i == CHOOSE h \in hits : \A g \in hits : h <= g
             IN  <<Slice(s, 1, i - 1), Slice(s, i + 1, Len(s))>>

\* os.path.basename: what follows the last "/"
basename(p) ==
    LET hits == {i \in 1..Len(p) : p[i] = "/"}
    IN  IF hits = {} THEN p
        ELSE LET i == CHOOSE h \in hits : \A g \in hits : h >= g
             IN  Slice(p, i + 1, Len(p))

\* the elements of a sequence that satisfy a test, in order
RECURSIVE SelectIdx(_, _, _)
SelectIdx(s, keep, i) ==
    IF i > Len(s) THEN <<>>
    ELSE (IF i \in keep THEN <<s[i]>> ELSE <<>>) \o SelectIdx(s, keep, i + 1)

\* the flattening of a sequence of sequences
RECURSIVE Flatten(_)
Flatten(ss) == IF Len(ss) = 0 THEN <<>> ELSE Head(ss) \o Flatten(Tail(ss))

\* the longest run of characters of class C(_) that starts at i: its last index
\* (i - 1 when s[i] is not of the class)
RECURSIVE RunEnd(_, _, _)
RunEnd(s, i, cls) ==
    IF i <= Len(s) /\ s[i] \in cls THEN RunEnd(s, i + 1, cls) ELSE i - 1


(***************************************************************************)
(* Versions: plugin.py                                                     *)
(***************************************************************************)
\* re.findall(r"\d+", v) as integers
RECURSIVE VtScan(_, _, _, _)
VtScan(v, i, cur, inrun) ==
    IF i > Len(v) THEN (IF inrun THEN <<cur>> ELSE <<>>)
    ELSE IF IsDigit(v[i]) THEN VtScan(v, i + 1, cur * 10 + DigitVal(v[i]), TRUE)
    ELSE (IF inrun THEN <<cur>> ELSE <<>>) \o VtScan(v, i + 1, 0, FALSE)

version_tuple(v) == VtScan(v, 1, 0, FALSE)

\* Python's tuple comparison a < b
TupleLess(a, b) ==
    LET n == IF Len(a) < Len(b) THEN Len(a) ELSE Len(b)
        diff == {i \in 1..n : a[i] # b[i]}
    IN  IF diff = {} THEN Len(a) < Len(b)
        ELSE LET i == CHOOSE d \in diff : \A e \in diff : d <= e
             IN  a[i] < b[i]

\* version.split("-")[0]
normalize_version(version) == split(version, "-")[1]

\* re.search(r"(\d+(\.\d+)+[-\w]*)", url): the places a match can start
ConfigVersionStarts(url) ==
    {p \in 1..Len(url) :
        /\ IsDigit(url[p])
        /\ LET e == RunEnd(url, p, DigitSet)
           IN  e + 2 <= Len(url) /\ url[e + 1] = "." /\ IsDigit(url[e + 2])}

\* (\.\d+)+ taken greedily from after index e: its last index
RECURSIVE DotRunsEnd(_, _)
DotRunsEnd(url, e) ==
    IF e + 2 <= Len(url) /\ url[e + 1] = "." /\ IsDigit(url[e + 2])
    THEN DotRunsEnd(url, RunEnd(url, e + 2, DigitSet))
    ELSE e

\* group 1 of the match that starts at p: \d+(\.\d+)+[-\w]* taken greedily
ConfigVersionAt(url, p) ==
    SubSeq(url, p,
           RunEnd(url, DotRunsEnd(url, RunEnd(url, p, DigitSet)) + 1, WordSet \cup {"-"}))

\* re.search reports the leftmost match
Leftmost(starts) == CHOOSE q \in starts : \A r \in starts : q <= r

get_config_version(url, plugin_name) ==
    IF url # None /\ url # <<>> /\ ConfigVersionStarts(url) # {}
    THEN ConfigVersionAt(url, Leftmost(ConfigVersionStarts(url)))
    ELSE plugin_name

\* (?:-\w+)?(\.jar|\.zip)$ matched against the rest of the name from index k
InstalledTail(b, k) ==
    LET rest == Slice(b, k, Len(b))
        ext(r) == r = <<".", "j", "a", "r">> \/ r = <<".", "z", "i", "p">>
    IN  \/ ext(rest)
        \/ /\ Len(rest) >= 2
           /\ rest[1] = "-"
           /\ LET w == RunEnd(rest, 2, WordSet)
              IN  w >= 2 /\ ext(Slice(rest, w + 1, Len(rest)))

\* ([a-zA-Z0-9\-]+)-([0-9\-\.]+)(?:-\w+)?(\.jar|\.zip)$ anchored at the start:
\* the pairs <<i, j>> with group 1 = b[1..i] and group 2 = b[i+2..j]
InstalledMatches(b) ==
    LET p == RunEnd(b, 1, NameSet)
        is == {i \in 1..(p - 1) : b[i + 1] = "-"}
    IN  UNION {{<<i, j>> : j \in {k \in (i + 2)..RunEnd(b, i + 2, VersionSet) :
                                     InstalledTail(b, k + 1)}} : i \in is}

\* group 2 of the match the backtracking engine finds: both groups are greedy,
\* so group 1 is the longest that lets the rest match, then group 2 likewise
GreedyMatch(ms) ==
    CHOOSE x \in ms : \A y \in ms : x[1] > y[1] \/ (x[1] = y[1] /\ x[2] >= y[2])

Group2(b, m) == SubSeq(b, m[1] + 2, m[2])

InstalledGroup2(b) ==
    IF InstalledMatches(b) = {} THEN None
    ELSE Group2(b, GreedyMatch(InstalledMatches(b)))

(***************************************************************************)
(* glob.glob(os.path.join(target_dir, pattern))                            *)
(***************************************************************************)
\* fnmatch of a file name against a pattern with * and ?
RECURSIVE FnMatchFrom(_, _, _, _)
FnMatchFrom(name, pat, i, k) ==
    IF k > Len(pat) THEN i > Len(name)
    ELSE IF pat[k] = "*"
         THEN \E n \in i..(Len(name) + 1) : FnMatchFrom(name, pat, n, k + 1)
    ELSE /\ i <= Len(name)
         /\ (pat[k] = "?" \/ pat[k] = name[i])
         /\ FnMatchFrom(name, pat, i + 1, k + 1)

\* glob leaves hidden files to patterns that name the leading dot
GlobMatch(name, pat) ==
    /\ Len(name) > 0
    /\ (name[1] = "." => (Len(pat) > 0 /\ pat[1] = "."))
    /\ FnMatchFrom(name, pat, 1, 1)

\* the names of a directory listing that match a pattern, in listing order
GlobDir(listing, pat) ==
    SelectIdx(listing, {i \in 1..Len(listing) : GlobMatch(listing[i], pat)}, 1)

\* for path in glob.glob(...): for pattern in cleanup_globs
GlobAll_byFile(listing, cleanup_globs) ==
    SelectIdx(listing,
              {i \in 1..Len(listing) :
                  \E k \in 1..Len(cleanup_globs) : GlobMatch(listing[i], cleanup_globs[k])},
              1)

\* for pattern in cleanup_globs: for path in glob.glob(...): the paths in the
\* order the nested loops visit them
GlobAll(listing, cleanup_globs) ==
    Flatten([k \in 1..Len(cleanup_globs) |-> GlobDir(listing, cleanup_globs[k])])

\* m = re.search(..., os.path.basename(path).lower()) for each path
InstalledVersions(paths) ==
    [i \in 1..Len(paths) |-> InstalledGroup2(lower(paths[i]))]

\* if m: return m.group(2), for the first path that has a match; else None
FirstVersion(found) ==
    LET hits == {i \in 1..Len(found) : found[i] # None}
    IN  IF hits = {} THEN None
        ELSE found[CHOOSE h \in hits : \A g \in hits : h <= g]

get_installed_version(listing, cleanup_globs) ==
    FirstVersion(InstalledVersions(GlobAll(listing, cleanup_globs)))

\* [g.strip() for g in plugin_cfg.get("cleanup_globs", "").split(",") if g.strip()]
ParseGlobs(text) ==
    LET parts == split(text, ",")
        st == [i \in 1..Len(parts) |-> strip(parts[i])]
    IN  SelectIdx(st, {i \in 1..Len(st) : st[i] # <<>>}, 1)


(***************************************************************************)
(* The version resolver: plugin_url.py                                     *)
(***************************************************************************)
ModrinthDom == <<"m", "o", "d", "r", "i", "n", "t", "h", ".", "c", "o", "m">>
GithubDom == <<"g", "i", "t", "h", "u", "b", ".", "c", "o", "m">>
GithubDomSlash == <<"g", "i", "t", "h", "u", "b", ".", "c", "o", "m", "/">>
HangarDom ==
    <<"h", "a", "n", "g", "a", "r", ".", "p", "a", "p", "e", "r", "m", "c", ".", "i",
      "o">>
HangarDomSlash ==
    <<"h", "a", "n", "g", "a", "r", ".", "p", "a", "p", "e", "r", "m", "c", ".", "i",
      "o", "/">>
HangarCdn ==
    <<"h", "t", "t", "p", "s", ":", "/", "/", "h", "a", "n", "g", "a", "r", "c", "d",
      "n", ".", "p", "a", "p", "e", "r", "m", "c", ".", "i", "o", "/", "p", "l", "u",
      "g", "i", "n", "s", "/">>
ExtJar == <<".", "j", "a", "r">>
BetaWord == <<"b", "e", "t", "a">>

\* the substrings that exclude a file of the mod registry
ModrinthExcluded ==
    {<<"v", "e", "l", "o", "c", "i", "t", "y">>, <<"b", "u", "n", "g", "e", "e">>,
     <<"f", "a", "b", "r", "i", "c">>, <<"c", "l", "i">>}

\* the substrings that exclude an asset of a release
GithubExcluded ==
    {<<"c", "l", "i">>, <<"-", "s", "o", "u", "r", "c", "e", "s">>,
     <<"-", "j", "a", "v", "a", "d", "o", "c">>, <<"f", "a", "b", "r", "i", "c">>,
     <<"v", "e", "l", "o", "c", "i", "t", "y">>, <<"b", "u", "n", "g", "e", "e">>}

\* the candidate files of a mod-registry response, in the order the nested
\* loops visit them: <<version label, file url>>
\* v.get("version_number") or v.get("name") or "0"
ModrinthLabel(v) ==
    IF v.version_number \notin {None, <<>>} THEN v.version_number
    ELSE IF v.name \notin {None, <<>>} THEN v.name
    ELSE <<"0">>

\* the files of a version that pass the name filter, in order
ModrinthFiles(files) ==
    SelectIdx(files,
              {i \in 1..Len(files) :
                  /\ EndsWith(lower(files[i]), ExtJar)
                  /\ ~\E x \in ModrinthExcluded : Contains(lower(files[i]), x)},
              1)

\* each of the files paired with the label of its version
Labelled(ver, files) == [k \in 1..Len(files) |-> <<ver, files[k]>>]

ModrinthVersion(v, ver, beta) ==
    IF ~beta /\ Contains(lower(ver), BetaWord) THEN <<>>
    ELSE Labelled(ver, ModrinthFiles(v.files))

ModrinthCandidates(r, beta) ==
    Flatten([i \in 1..Len(r) |-> ModrinthVersion(r[i], ModrinthLabel(r[i]), beta)])

RECURSIVE ModrinthScan(_, _, _, _)
ModrinthScan(cands, i, best_url, best_ver) ==
    IF i > Len(cands) THEN best_url
    ELSE IF TupleLess(version_tuple(best_ver), version_tuple(cands[i][1]))
         THEN ModrinthScan(cands, i + 1, cands[i][2], cands[i][1])
    ELSE ModrinthScan(cands, i + 1, best_url, best_ver)

\* r is the registry's answer for the slug: r.ok is false when the request or
\* the parsing of its answer raises, and r.versions is the list of versions
modrinth_latest(slug, beta, r) ==
    IF ~r.ok THEN None
    ELSE ModrinthScan(ModrinthCandidates(r.versions, beta), 1, None, <<"0">>)

\* url[a..e] is a non-empty [^/]+ that a "/" and one more [^/] follow
TwoSegments(url, a, e) ==
    e >= a /\ e + 2 <= Len(url) /\ url[e + 1] = "/" /\ url[e + 2] # "/"

\* re.search(r"github\.com/([^/]+/[^/]+)", repo_url) finds a match
GithubRepoMatches(repo_url) ==
    \E p \in 1..Len(repo_url) :
        /\ MatchAt(repo_url, p, GithubDomSlash)
        /\ TwoSegments(repo_url, p + Len(GithubDomSlash),
                       RunEnd(repo_url, p + Len(GithubDomSlash), Range(repo_url) \ {"/"}))

\* 3 = Spigot/Bukkit, 2 = Paper, 1 = other
GithubPriority(fn) ==
    IF Contains(fn, <<"s", "p", "i", "g", "o", "t">>)
       \/ Contains(fn, <<"b", "u", "k", "k", "i", "t">>) THEN 3
    ELSE IF Contains(fn, <<"p", "a", "p", "e", "r">>) THEN 2
    ELSE 1

\* an asset passes the name filter of the inner loop
GithubAssetKept(a) ==
    LET fn == lower(a.name)
    IN  EndsWith(fn, ExtJar) /\ ~\E x \in GithubExcluded : Contains(fn, x)

\* the assets the two loops reach the priority test with, in order
GithubCandidates(releases, beta) ==
    LET assets(rel) ==
            IF ~beta /\ rel.prerelease THEN <<>>
            ELSE SelectIdx(rel.assets,
                           {i \in 1..Len(rel.assets) : GithubAssetKept(rel.assets[i])}, 1)
    IN  Flatten([i \in 1..Len(releases) |-> assets(releases[i])])

\* if priority > best_priority: keep this asset
GithubKeeps_ge(priority, best_priority) == priority >= best_priority

GithubKeeps(priority, best_priority) == priority > best_priority

RECURSIVE GithubScan(_, _, _, _)
GithubScan(cands, i, best_url, best_priority) ==
    IF i > Len(cands) THEN best_url
    ELSE IF GithubKeeps(GithubPriority(lower(cands[i].name)), best_priority)
         THEN GithubScan(cands, i + 1, cands[i].browser_download_url,
                         GithubPriority(lower(cands[i].name)))
    ELSE GithubScan(cands, i + 1, best_url, best_priority)

\* r is the API's answer: r.ok is false when the request or the parsing of its
\* answer raises, and r.releases is the list of releases
github_latest(repo_url, beta, r) ==
    IF ~GithubRepoMatches(repo_url) THEN None
    ELSE IF ~r.ok THEN None
    ELSE GithubScan(GithubCandidates(r.releases, beta), 1, None, 0)

\* re.search(r"hangar\.papermc\.io/([^/]+)/([^/]+)", url): <<author, project>>,
\* or None
\* the places a match of the pattern can start
HangarStarts(url) ==
    {p \in 1..Len(url) :
        /\ MatchAt(url, p, HangarDomSlash)
        /\ TwoSegments(url, p + Len(HangarDomSlash),
                       RunEnd(url, p + Len(HangarDomSlash), Range(url) \ {"/"}))}

\* the two groups, group 1 being url[a..e]
HangarGroups(url, a, e) ==
    <<SubSeq(url, a, e), SubSeq(url, e + 2, RunEnd(url, e + 2, Range(url) \ {"/"}))>>

HangarGroupsFrom(url, a) == HangarGroups(url, a, RunEnd(url, a, Range(url) \ {"/"}))

HangarProject(url) ==
    IF HangarStarts(url) = {} THEN None
    ELSE HangarGroupsFrom(url, Leftmost(HangarStarts(url)) + Len(HangarDomSlash))

\* sorted(r, key=lambda v: version_tuple(v["name"]), reverse=True): the sort is
\* stable, so equal keys keep the order of the response
SortedBy(r, key) ==
    LET before(j, i) == TupleLess(key[i], key[j]) \/ (key[i] = key[j] /\ j < i)
        rank(i) == Cardinality({j \in 1..Len(r) : before(j, i)}) + 1
    IN  [k \in 1..Len(r) |-> r[CHOOSE i \in 1..Len(r) : rank(i) = k]]

HangarSorted(r) == SortedBy(r, [i \in 1..Len(r) |-> version_tuple(r[i].name)])

\* r is the API's answer: r.ok is false when the request or the parsing of its
\* answer raises, and r.result is the list of versions
\* the f-string of the download URL
HangarUrl(author, project, ver_name) ==
    HangarCdn \o author \o <<"/">> \o project
      \o <<"/", "v", "e", "r", "s", "i", "o", "n", "s", "/">> \o ver_name
      \o <<"/", "P", "A", "P", "E", "R", "/">> \o project \o <<"-">>
      \o ver_name \o ExtJar

\* the loop over the sorted versions: the first one the channel test lets through
HangarFirst(groups, versions, beta) ==
    LET ok == {i \in 1..Len(versions) : beta \/ lower(versions[i].channel) # BetaWord}
    IN  IF ok = {} THEN None
        ELSE HangarUrl(groups[1], groups[2],
                       versions[CHOOSE i \in ok : \A j \in ok : i <= j].name)

hangar_latest(url, beta, r) ==
    IF HangarProject(url) = None THEN None
    ELSE IF ~r.ok THEN None
    ELSE HangarFirst(HangarProject(url), HangarSorted(r.result), beta)

\* which strategy the loop of get_latest calls for a source URL
StrategyOf(url) ==
    IF Contains(url, ModrinthDom) THEN "modrinth"
    ELSE IF Contains(url, GithubDom) THEN "github"
    ELSE IF Contains(url, HangarDom) THEN "hangar"
    ELSE "none"

\* the result of the strategy called for one source URL
StrategyCall(strategy, url, beta, remote) ==
    CASE strategy = "modrinth" ->
            modrinth_latest(basename(rstripSlash(url)), beta, remote.modrinth)
      [] strategy = "github" -> github_latest(url, beta, remote.github)
      [] strategy = "hangar" -> hangar_latest(url, beta, remote.hangar)
      [] OTHER -> None

StrategyResult(url, beta, remote) == StrategyCall(StrategyOf(url), url, beta, remote)

\* if result: return result
ResolverStops(result) == result \notin {None, <<>>}

RECURSIVE ResolveFrom(_, _, _, _, _)
\* the calls made once the strategy of a source URL returned res
CallsWith(calls, strategy, res) ==
    IF strategy = "none" THEN calls
    ELSE Append(calls, [strategy |-> strategy, result |-> res])

\* one round of the loop: the strategy of urls[i] returned res
ResolveRound(urls, i, beta, remote, res, now) ==
    IF ResolverStops(res) THEN [result |-> res, calls |-> now]
    ELSE ResolveFrom(urls, i + 1, beta, remote, now)

ResolveWith(urls, i, beta, remote, calls, res) ==
    ResolveRound(urls, i, beta, remote, res, CallsWith(calls, StrategyOf(urls[i]), res))

\* the loop over the source URLs from index i on: the result and the strategy
\* calls made, in order
ResolveFrom(urls, i, beta, remote, calls) ==
    IF i > Len(urls) THEN [result |-> None, calls |-> calls]
    ELSE ResolveWith(urls, i, beta, remote, calls, StrategyResult(urls[i], beta, remote))

\* remote.repos is repos.json: remote.repos.ok is false when it cannot be loaded,
\* and remote.repos.plugins maps plugin names to lists of source URLs
get_latest(plugin_name, beta, remote) ==
    IF ~remote.repos.ok THEN [result |-> None, calls |-> <<>>]
    ELSE IF lower(plugin_name) \notin DOMAIN remote.repos.plugins
            \/ remote.repos.plugins[lower(plugin_name)] = <<>>
         THEN [result |-> None, calls |-> <<>>]
    ELSE ResolveFrom(remote.repos.plugins[lower(plugin_name)], 1, beta, remote, <<>>)

\* python3 plugin_url.py <plugin_name>: prints the URL, or exits with status 1
ExitWith(got) ==
    IF got.result \notin {None, <<>>}
    THEN [rc |-> 0, output |-> got.result \o <<"\n">>, calls |-> got.calls]
    ELSE [rc |-> 1, output |-> <<>>, calls |-> got.calls]

plugin_url_main(plugin_name, remote) == ExitWith(get_latest(plugin_name, FALSE, remote))


(***************************************************************************)
(* The state of a run of plugin.py                                         *)
(***************************************************************************)
VARIABLES
    mode,       \* args.command: "discover", "update" or "sync"
    only,       \* args.only: None, or the plugin named by --only
    pc,         \* where main() stands: "start", "plugin", "target", "sweep",
                \* "done", or "crashed" when an exception reached the top level
    exc,        \* the exception that reached the top level ("" when none did)
    rc,         \* the value main() returned
    ini,        \* plugins.ini: its sections in order, each [name, opts]
    cfg,        \* selected_plugins: the entries in order, each [key, opts]
    pi,         \* the index in cfg of the plugin being processed
    loc,        \* the locals of discover_plugin / update_plugin / sync_plugin
    ti,         \* the index in loc.targets of the next target
    t,          \* the loop variable t the logging lambda closes over
    fs,         \* the directories that exist, each with the names of its files
    logs,       \* the lines _log wrote, in order
    lookups,    \* how many times get_latest_url ran
    resolved,   \* what each run of plugin_url.py did: its strategy calls and result
    downloads,  \* the urlretrieve calls, in order
    extracted,  \* the jars process_all_plugins handed to extract_configs
    last,       \* what the last step of a per-target loop saw and did
    fin,        \* the input of the function under test (function specifications)
    fout        \* its output

vars == <<mode, only, pc, exc, rc, ini, cfg, pi, loc, ti, t, fs, logs, lookups,
          resolved, downloads, extracted, last, fin, fout>>

PluginPrefix == <<"p", "l", "u", "g", "i", "n", ":">>
PluginsDir == <<"/", "p", "l", "u", "g", "i", "n", "s">>
LogsDir == <<"l", "o", "g", "s">>
LogExt == <<".", "l", "o", "g">>
General == <<"g", "e", "n", "e", "r", "a", "l">>
BuildText == <<"b", "u", "i", "l", "d">>
Bluemap == <<"b", "l", "u", "e", "m", "a", "p">>
SpigotJar == <<"-", "s", "p", "i", "g", "o", "t", ".", "j", "a", "r">>
CliJar == <<"-", "c", "l", "i", ".", "j", "a", "r">>
\* base_dir itself, as a path relative to base_dir
BaseDir == <<>>

\* the options of a section the model reads; None stands for an absent key
NoOpts == [url |-> None, targets |-> None, cleanup_globs |-> None]

NoLast ==
    [plugin |-> None, target |-> None, installed |-> None, other |-> None,
     branch |-> "none", removed |-> <<>>, dl |-> "none", wrote |-> FALSE]

NoLoc ==
    [plugin_name |-> None, targets |-> <<>>, cleanup_globs |-> <<>>,
     config_version |-> None, url |-> None, latest_url |-> None,
     latest_version |-> None]

(***************************************************************************)
(* The file system and the log                                             *)
(***************************************************************************)
\* the directories os.makedirs(path) makes sure exist: path and its ancestors
Ancestors(path) ==
    {Slice(path, 1, i - 1) : i \in {j \in 2..Len(path) : path[j] = "/"}} \cup {path}

\* _ensure_dir(path): os.makedirs(path) when path does not exist
_ensure_dir(f, path) ==
    IF path \in DOMAIN f THEN f
    ELSE [d \in DOMAIN f \cup Ancestors(path) |-> IF d \in DOMAIN f THEN f[d] ELSE <<>>]

\* the file system after _log wrote a line for plugin_name
LogFs(f, plugin_name) ==
    LET g == _ensure_dir(f, LogsDir)
        file == plugin_name \o LogExt
    IN  [g EXCEPT ![LogsDir] = IF file \in Range(@) THEN @ ELSE Append(@, file)]

\* the line _log writes; where is the "<target>/plugins" prefix of the logging
\* lambda, None for a line written without it
Line(plugin_name, where, kind, a, b) ==
    [plugin |-> plugin_name, where |-> where, kind |-> kind, a |-> a, b |-> b]

\* os.path.join(base_dir, t.strip() + "/plugins"), relative to base_dir
TargetDir(target) == strip(target) \o PluginsDir

\* the listing without the files the cleanup loops remove
Cleaned(listing, cleanup_globs) ==
    SelectIdx(listing,
              {i \in 1..Len(listing) :
                  ~\E k \in 1..Len(cleanup_globs) : GlobMatch(listing[i], cleanup_globs[k])},
              1)

\* the files the cleanup loops remove
Removed(listing, cleanup_globs) ==
    SelectIdx(listing,
              {i \in 1..Len(listing) :
                  \E k \in 1..Len(cleanup_globs) : GlobMatch(listing[i], cleanup_globs[k])},
              1)

\* the listings a directory can show once a file of that name is written: a
\* file that exists keeps its place, a new one shows wherever the file system
\* lists it
WithFile(listing, name) ==
    IF name \in Range(listing) THEN {listing}
    ELSE {Slice(listing, 1, k - 1) \o <<name>> \o Slice(listing, k, Len(listing)) :
            k \in 1..(Len(listing) + 1)}

RECURSIVE WithFiles(_, _)
WithFiles(listing, names) ==
    IF names = <<>> THEN {listing}
    ELSE UNION {WithFiles(l, Tail(names)) : l \in WithFile(listing, Head(names))}

(***************************************************************************)
(* download_plugin                                                         *)
(***************************************************************************)
\* re.sub(r"-spigot\.jar$", "-cli.jar", url)
CliUrl(url) ==
    IF EndsWith(url, SpigotJar)
    THEN Slice(url, 1, Len(url) - Len(SpigotJar)) \o CliJar
    ELSE url

\* os.path.basename(target_path).split('-')[0].lower() == "bluemap"
IsBluemap(jar_name) == lower(split(jar_name, "-")[1]) = Bluemap

\* What one call of download_plugin can do.  ok is its return value, files are
\* the files it leaves in the target directory (urlretrieve leaves what it had
\* written when the transfer breaks), fetched the URLs it asked for, said the
\* lines it logs.  An empty file name makes target_path the directory itself:
\* open() raises.  Every exception is caught and turned into ok = FALSE.
DownloadOutcomes(url, jar_name) ==
    LET out(ok, files, fetched, said) ==
            [ok |-> ok, files |-> files, fetched |-> fetched,
             \* os.makedirs(bluemap_output_dir) ran
             setup |-> "Running BlueMap CLI setup" \in Range(said),
             said |-> <<"Downloading">> \o said
                      \o (IF ok THEN <<>> ELSE <<"Error downloading plugin">>)]
        failed ==
            {out(FALSE, <<>>, <<url>>, <<>>)}
            \cup (IF jar_name = <<>> THEN {}
                  ELSE {out(FALSE, <<jar_name>>, <<url>>, <<>>)})
        cli == basename(CliUrl(url))
        both == <<url, CliUrl(url)>>
    IN  IF jar_name = <<>> THEN failed
        ELSE IF ~IsBluemap(jar_name)
             THEN failed \cup {out(TRUE, <<jar_name>>, <<url>>, <<"Downloaded successfully">>)}
        ELSE failed
             \cup {\* the companion jar cannot be fetched
                   out(FALSE, <<jar_name>>, both,
                       <<"Downloaded successfully", "Detected Bluemap">>),
                   \* java cannot be started: not a CalledProcessError
                   out(FALSE, <<jar_name, cli>>, both,
                       <<"Downloaded successfully", "Detected Bluemap",
                         "Downloaded Bluemap CLI", "Running BlueMap CLI setup">>),
                   out(TRUE, <<jar_name, cli>>, both,
                       <<"Downloaded successfully", "Detected Bluemap",
                         "Downloaded Bluemap CLI", "Running BlueMap CLI setup",
                         "BlueMap CLI setup completed">>)}

\* the lines download_plugin logs for an outcome
DownloadLines(plugin_name, where, url, out) ==
    [k \in 1..Len(out.said) |-> Line(plugin_name, where, out.said[k], url, None)]

(***************************************************************************)
(* The decisions of the three modes, as functions of what they read        *)
(***************************************************************************)
\* "if x:" for a text or None
Truthy(x) == x \notin {None, <<>>}

\* normalize_version(v) if v else None
NormOrNone(v) == IF Truthy(v) THEN normalize_version(v) ELSE None

\* version_tuple(normalized_installed) < version_tuple(normalized_latest)
OlderThan_le(normalized_installed, normalized_latest) ==
    ~TupleLess(version_tuple(normalized_latest), version_tuple(normalized_installed))

OlderThan(normalized_installed, normalized_latest) ==
    TupleLess(version_tuple(normalized_installed), version_tuple(normalized_latest))

\* update_plugin: version_tuple(None) raises TypeError
UpdateRaises(installed_version, latest_version) ==
    NormOrNone(installed_version) # None /\ NormOrNone(latest_version) = None

\* update_plugin: need_update and latest_url
UpdateTaken(installed_version, latest_version, latest_url) ==
    /\ \/ NormOrNone(installed_version) = None
       \/ OlderThan(NormOrNone(installed_version), NormOrNone(latest_version))
    /\ Truthy(latest_url)

\* discover_plugin: the line it logs for a target
DiscoverReport(installed_version, config_version, latest_version) ==
    IF ~Truthy(installed_version)
    THEN [kind |-> "not installed", a |-> config_version,
          b |-> IF config_version = latest_version THEN None ELSE latest_version]
    ELSE LET ni == normalize_version(installed_version)
             nl == NormOrNone(latest_version)
             nc == normalize_version(config_version)
         IN  IF ni # nl
             THEN [kind |-> "update available", a |-> ni, b |-> nl]
             ELSE IF ni # nc
             THEN [kind |-> "config version mismatch", a |-> ni, b |-> nc]
             ELSE [kind |-> "already up-to-date", a |-> ni, b |-> None]

\* sync_plugin: normalized_installed != normalized_config
SyncTaken_raw(installed_version, config_version) ==
    installed_version # config_version

SyncTaken(installed_version, config_version) ==
    NormOrNone(installed_version) # normalize_version(config_version)

(***************************************************************************)
(* get_latest_url and the configuration store                              *)
(***************************************************************************)
\* sub is what the subprocess did; tcell is the closure cell of t when the
\* except branch calls log(e): the lambda reads t.strip(), and a cell nothing
\* has assigned raises NameError out of the except branch
get_latest_url(plugin_name, tcell, sub) ==
    IF sub.rc = 0
    THEN [raises |-> FALSE, said |-> FALSE,
          url |-> IF strip(sub.output) # <<>> THEN strip(sub.output) ELSE None]
    ELSE IF tcell = Unbound
         THEN [raises |-> TRUE, said |-> FALSE, url |-> None]
    ELSE [raises |-> FALSE, said |-> TRUE, url |-> None]

\* targets_plugins: section.split(":", 1)[1].lower() -> dict(config[section]),
\* a later section of the same key replacing the value of an earlier one
\* the key of each section, None for a section that is not a plugin's
SectionKeys(sections) ==
    [i \in 1..Len(sections) |->
        IF StartsWith(sections[i].name, PluginPrefix)
        THEN lower(split1(sections[i].name, ":")[2])
        ELSE None]

\* the indices of a sequence that are in a set, in order
Indices(n, keep) == SelectIdx([i \in 1..n |-> i], keep, 1)

\* the dict built from the sections whose keys are key: a key keeps the place
\* of its first section and the value of its last
PluginsDict(sections, key, idx) ==
    [n \in 1..Len(idx) |->
        [key |-> key[idx[n]],
         opts |-> sections[CHOOSE j \in 1..Len(sections) :
                              /\ key[j] = key[idx[n]]
                              /\ \A k \in 1..Len(sections) :
                                    key[k] = key[idx[n]] => k <= j].opts]]

PluginsOf(sections, key) ==
    PluginsDict(sections, key,
                Indices(Len(sections),
                        {i \in 1..Len(sections) :
                            key[i] # None /\ ~\E j \in 1..(i - 1) : key[j] = key[i]}))

LoadPlugins(sections) == PluginsOf(sections, SectionKeys(sections))

\* plugin_cfg.get("targets", "build").split(",")
ParseTargets(opts) ==
    split(IF opts.targets = None THEN BuildText ELSE opts.targets, ",")

\* plugin_cfg.get("cleanup_globs", "")
GlobsOf(opts) == ParseGlobs(IF opts.cleanup_globs = None THEN <<>> ELSE opts.cleanup_globs)

\* the config file after update_plugin rewrote the plugin's section from
\* plugin_cfg: the section "plugin:<plugin_name>" is added when the file has
\* none of that exact name
WriteIni(sections, plugin_name, plugin_cfg) ==
    LET section_name == PluginPrefix \o plugin_name
        merged(o) == [k \in DOMAIN o |-> IF plugin_cfg[k] # None THEN plugin_cfg[k] ELSE o[k]]
    IN  IF \E i \in 1..Len(sections) : sections[i].name = section_name
        THEN [i \in 1..Len(sections) |->
                 IF sections[i].name = section_name
                 THEN [name |-> section_name, opts |-> merged(sections[i].opts)]
                 ELSE sections[i]]
        ELSE Append(sections, [name |-> section_name, opts |-> merged(NoOpts)])

(***************************************************************************)
(* The configurations, directories and remote answers the runs start from  *)
(***************************************************************************)
Foo == <<"f", "o", "o">>
Host == <<"h", "t", "t", "p", "s", ":", "/", "/", "h", ".", "i", "o", "/">>
File120 == <<"f", "o", "o", "-", "1", ".", "2", ".", "0", ".", "j", "a", "r">>
File130 == <<"f", "o", "o", "-", "1", ".", "3", ".", "0", ".", "j", "a", "r">>
File1100 == <<"f", "o", "o", "-", "1", ".", "1", "0", ".", "0", ".", "j", "a", "r">>
FilePlain == <<"f", "o", "o", ".", "j", "a", "r">>
FileDash == <<"f", "o", "o", "-", "-", ".", "j", "a", "r">>
FileZip130 == <<"f", "o", "o", "-", "1", ".", "3", ".", "0", ".", "z", "i", "p">>
FileSpigot120 ==
    <<"f", "o", "o", "-", "1", ".", "2", ".", "0", "-", "s", "p", "i", "g", "o", "t",
      ".", "j", "a", "r">>
FileBeta ==
    <<"f", "o", "o", "-", "1", ".", "2", ".", "0", "-", "b", "e", "t", "a", "-", "1",
      ".", "j", "a", "r">>
FileOther == <<"b", "a", "r", "-", "2", ".", "0", ".", "j", "a", "r">>
FileBlueMap54 ==
    <<"B", "l", "u", "e", "M", "a", "p", "-", "5", ".", "4", "-", "s", "p", "i", "g",
      "o", "t", ".", "j", "a", "r">>
FileBlueMap55 ==
    <<"B", "l", "u", "e", "M", "a", "p", "-", "5", ".", "5", "-", "s", "p", "i", "g",
      "o", "t", ".", "j", "a", "r">>
Url120 == Host \o File120
Url130 == Host \o File130
Url1100 == Host \o File1100
Url120Spigot == Host \o FileSpigot120
UrlNoVersion == Host \o FilePlain
UrlBlueMap54 == Host \o FileBlueMap54
UrlBlueMap55 == Host \o FileBlueMap55

SecFoo == PluginPrefix \o Foo
SecBlueMap == PluginPrefix \o <<"B", "l", "u", "e", "M", "a", "p">>
TargetsTwo == <<"b", "u", "i", "l", "d", ",", " ", "l", "i", "v", "e">>
FooGlobs ==
    <<"f", "o", "o", "-", "*", ".", "z", "i", "p", ",", " ", "f", "o", "o", "*", ".",
      "j", "a", "r">>
FooGlobsJarFirst ==
    <<"f", "o", "o", "*", ".", "j", "a", "r", ",", "f", "o", "o", "-", "*", ".", "z",
      "i", "p">>
BlueMapGlobs == <<"B", "l", "u", "e", "M", "a", "p", "-", "*", ".", "j", "a", "r">>
BuildPlugins == BuildText \o PluginsDir
LivePlugins == <<"l", "i", "v", "e">> \o PluginsDir
OnlyFoo == <<"F", "O", "O">>
OnlyNope == <<"n", "o", "p", "e">>

SrcModrinth ==
    <<"h", "t", "t", "p", "s", ":", "/", "/", "m", "o", "d", "r", "i", "n", "t", "h",
      ".", "c", "o", "m", "/", "p", "l", "u", "g", "i", "n", "/", "f", "o", "o">>
SrcGithub ==
    <<"h", "t", "t", "p", "s", ":", "/", "/", "g", "i", "t", "h", "u", "b", ".", "c",
      "o", "m", "/", "o", "/", "f", "o", "o">>
SrcGithubBad ==
    <<"h", "t", "t", "p", "s", ":", "/", "/", "g", "i", "t", "h", "u", "b", ".", "c",
      "o", "m", "/", "f", "o", "o">>
SrcHangar ==
    <<"h", "t", "t", "p", "s", ":", "/", "/", "h", "a", "n", "g", "a", "r", ".", "p",
      "a", "p", "e", "r", "m", "c", ".", "i", "o", "/", "o", "/", "F", "o", "o">>
SrcOther ==
    <<"h", "t", "t", "p", "s", ":", "/", "/", "x", ".", "o", "r", "g", "/", "f", "o",
      "o">>

\* a plugins.ini with one plugin and one target (the default, "build")
IniOne(url) ==
    <<[name |-> General, opts |-> NoOpts],
      [name |-> SecFoo,
       opts |-> [url |-> url, targets |-> None, cleanup_globs |-> FooGlobs]]>>

\* a plugins.ini with two plugins, the first with two targets
IniTwo(url) ==
    <<[name |-> SecFoo,
       opts |-> [url |-> url, targets |-> TargetsTwo, cleanup_globs |-> FooGlobs]],
      [name |-> SecBlueMap,
       opts |-> [url |-> UrlBlueMap54, targets |-> None, cleanup_globs |-> BlueMapGlobs]]>>

\* what a target directory holds when a run starts
Listings ==
    {l \in {<<>>, <<File120>>, <<File130>>, <<File1100>>, <<FilePlain>>, <<FileDash>>,
            <<FileSpigot120>>, <<FileOther>>,
            <<File120, FileZip130>>, <<FilePlain, File120>>, <<FileBeta, FileOther>>,
            <<FileOther, File130, File120>>} :
        Len(l) <= MaxInitFiles}

\* a base directory whose build/plugins holds the listing
FsOne(listing) == (BaseDir :> <<>>) @@ (BuildText :> <<>>) @@ (BuildPlugins :> listing)

\* a base directory with the target directories given (None: not there)
FsTwo(build, live) ==
    [d \in {BaseDir} \cup (IF build = None THEN {} ELSE Ancestors(BuildPlugins))
                     \cup (IF live = None THEN {} ELSE Ancestors(LivePlugins)) |->
        IF d = BuildPlugins THEN build ELSE IF d = LivePlugins THEN live ELSE <<>>]

NoFs == [d \in {} |-> <<>>]

\* a registry answer with one version whose one file is url
ModrinthHas(version, url) ==
    [ok |-> TRUE,
     versions |-> <<[version_number |-> version, name |-> None, files |-> <<url>>]>>]

\* a releases answer with one release whose assets are the files of the urls
GithubHas(urls) ==
    [ok |-> TRUE,
     releases |-> <<[prerelease |-> FALSE,
                     assets |-> [i \in 1..Len(urls) |->
                                    [name |-> basename(urls[i]),
                                     browser_download_url |-> urls[i]]]]>>]

HangarDown == [ok |-> FALSE, result |-> <<>>]

\* a plugin-hosting answer with one version of the release channel
HangarHas(version) ==
    [ok |-> TRUE,
     result |-> <<[name |-> version,
                   channel |-> <<"R", "e", "l", "e", "a", "s", "e">>]>>]

ReposOf(foo, bluemap) ==
    [ok |-> TRUE, plugins |-> (Foo :> foo) @@ (Bluemap :> bluemap)]

\* the remote worlds a lookup of the runs can meet
RemoteChoices ==
    {\* repos.json cannot be loaded
     [repos |-> [ok |-> FALSE, plugins |-> <<>>],
      modrinth |-> ModrinthHas(<<"1">>, Url130), github |-> GithubHas(<<>>),
      hangar |-> HangarDown],
     \* the registry answers first
     [repos |-> ReposOf(<<SrcModrinth, SrcGithub>>, <<SrcGithub>>),
      modrinth |-> ModrinthHas(<<"1", ".", "3", ".", "0">>, Url130),
      github |-> GithubHas(<<UrlBlueMap55>>), hangar |-> HangarDown],
     \* the mapping lists the release host first
     [repos |-> ReposOf(<<SrcGithub, SrcModrinth>>, <<>>),
      modrinth |-> ModrinthHas(<<"1", ".", "3", ".", "0">>, Url130),
      github |-> GithubHas(<<Url120>>), hangar |-> HangarDown],
     \* the release host has nothing, the registry answers after it
     [repos |-> ReposOf(<<SrcGithub, SrcModrinth>>, <<SrcGithubBad>>),
      modrinth |-> ModrinthHas(<<"1", ".", "1", "0">>, Url1100),
      github |-> GithubHas(<<>>), hangar |-> HangarDown],
     \* the mapping lists a host no strategy knows, then the plugin host
     [repos |-> ReposOf(<<SrcOther, SrcHangar, SrcModrinth>>, <<>>),
      modrinth |-> ModrinthHas(<<"1", ".", "3", ".", "0">>, Url130),
      github |-> GithubHas(<<>>), hangar |-> HangarHas(<<"1", ".", "3", ".", "0">>)]}

(***************************************************************************)
(* The run: main() and the three per-plugin functions                      *)
(***************************************************************************)
Init ==
    /\ mode \in {"discover", "update", "sync"}
    /\ \/ /\ only = None
          /\ \E url \in {None, Url120, Url130, Url120Spigot, UrlNoVersion} :
                ini = IniOne(url)
          /\ \E l \in Listings : fs = FsOne(l)
       \/ /\ only \in {None, OnlyFoo, OnlyNope}
          /\ \E url \in {None, Url130} : ini = IniTwo(url)
          /\ \E b \in {None, <<File120>>}, l \in {None, <<File130>>} : fs = FsTwo(b, l)
       \/ /\ only = None
          /\ ini = <<>>
          /\ fs = NoFs
    /\ pc = "start"
    /\ exc = ""
    /\ rc = -1
    /\ cfg = <<>>
    /\ pi = 0
    /\ loc = NoLoc
    /\ ti = 0
    /\ t = Unbound
    /\ logs = <<>>
    /\ lookups = 0
    /\ resolved = <<>>
    /\ downloads = <<>>
    /\ extracted = {}
    /\ last = NoLast
    /\ fin = <<>>
    /\ fout = <<>>

\* if args.command == "sync": ... sync_plugin(base_dir, k, p)
PluginFunction_update(command) ==
    IF command = "discover" THEN "discover_plugin" ELSE "update_plugin"

\* the per-plugin function main() calls for a command
PluginFunction(command) ==
    CASE command = "discover" -> "discover_plugin"
      [] command = "update" -> "update_plugin"
      [] command = "sync" -> "sync_plugin"

\* where main() goes once the plugin at index i - 1 is done
AfterPlugin(selected, i) ==
    IF i <= Len(selected) THEN "plugin"
    ELSE IF mode = "discover" THEN "done" ELSE "sweep"

\* main() up to the loop over the selected plugins
main ==
    /\ pc = "start"
    /\ \E plugins \in {LoadPlugins(ini)}, key \in {lower(only)} :
          LET hit == {i \in 1..Len(plugins) : plugins[i].key = key}
          IN  IF Truthy(only) /\ hit = {}
              THEN /\ cfg' = plugins
                   /\ logs' = Append(logs, Line(General, None,
                                                "No such plugin in registry", key, None))
                   /\ pc' = "done"
                   /\ rc' = 1
                   /\ pi' = pi
              ELSE /\ cfg' = IF Truthy(only)
                             THEN <<plugins[CHOOSE i \in hit : TRUE]>>
                             ELSE plugins
                   /\ logs' = logs \o <<Line(General, None, "Base directory", None, None),
                                        Line(General, None, mode, None, None)>>
                   /\ pi' = 1
                   /\ \E after \in {AfterPlugin(cfg', 1)} :
                         /\ pc' = after
                         /\ rc' = IF after = "done" THEN 0 ELSE rc
    /\ fs' = LogFs(_ensure_dir(fs, BaseDir), General)
    /\ UNCHANGED <<mode, only, exc, ini, loc, ti, t, lookups, resolved, downloads,
                   extracted, last, fin, fout>>

\* the record of one run of plugin_url.py
Resolution(plugin_name, sub) ==
    [plugin |-> plugin_name, rc |-> sub.rc, calls |-> sub.calls,
     url |-> IF sub.rc = 0 THEN strip(sub.output) ELSE None]

\* discover_plugin and update_plugin up to their loop: the locals, and the
\* lookup with t not yet bound
LookupBegin(withConfigVersion) ==
    \E remote \in RemoteChoices :
    \E sub \in {plugin_url_main(cfg[pi].key, remote)} :
    \E got \in {get_latest_url(cfg[pi].key, Unbound, sub)} :
        LET plugin_name == cfg[pi].key
            plugin_cfg == cfg[pi].opts
        IN  /\ lookups' = lookups + 1
            /\ resolved' = Append(resolved, Resolution(plugin_name, sub))
            /\ t' = Unbound
            /\ ti' = 1
            /\ loc' = [plugin_name |-> plugin_name,
                       targets |-> ParseTargets(plugin_cfg),
                       cleanup_globs |-> GlobsOf(plugin_cfg),
                       config_version |->
                           IF withConfigVersion
                           THEN get_config_version(plugin_cfg.url, plugin_name)
                           ELSE None,
                       url |-> plugin_cfg.url,
                       latest_url |-> got.url,
                       latest_version |->
                           IF Truthy(got.url)
                           THEN get_config_version(got.url, plugin_name)
                           ELSE None]
            /\ IF got.raises
               THEN pc' = "crashed" /\ exc' = "NameError"
               ELSE pc' = "target" /\ exc' = exc
            /\ UNCHANGED <<mode, only, rc, ini, cfg, pi, fs, logs, downloads, extracted,
                           last, fin, fout>>

discover_plugin_begin ==
    /\ pc = "plugin"
    /\ PluginFunction(mode) = "discover_plugin"
    /\ LookupBegin(TRUE)

update_plugin_begin ==
    /\ pc = "plugin"
    /\ PluginFunction(mode) = "update_plugin"
    /\ LookupBegin(FALSE)

\* one round of the loop of discover_plugin
discover_plugin_target ==
    /\ pc = "target"
    /\ PluginFunction(mode) = "discover_plugin"
    /\ ti <= Len(loc.targets)
    /\ \E target \in {loc.targets[ti]} :
       \E dir \in {TargetDir(target)} :
       \E f1 \in {_ensure_dir(fs, dir)} :
       \E installed_version \in {get_installed_version(f1[dir], loc.cleanup_globs)} :
       \E rep \in {DiscoverReport(installed_version, loc.config_version,
                                  loc.latest_version)} :
           /\ t' = target
           /\ fs' = LogFs(f1, loc.plugin_name)
           /\ logs' = Append(logs, Line(loc.plugin_name, dir, rep.kind, rep.a, rep.b))
           /\ last' = [plugin |-> loc.plugin_name, target |-> dir,
                       installed |-> installed_version, other |-> loc.latest_version,
                       branch |-> rep.kind, removed |-> <<>>, dl |-> "none",
                       wrote |-> FALSE]
    /\ ti' = ti + 1
    /\ UNCHANGED <<mode, only, pc, exc, rc, ini, cfg, pi, loc, lookups, resolved,
                   downloads, extracted, fin, fout>>

\* the file system after a download outcome left its files in dir, whose
\* listing after the cleanup is listing
AfterDownload(f, dir, listing, out) ==
    LET g == IF out.setup
             THEN _ensure_dir(f, dir \o <<"/", "B", "l", "u", "e", "M", "a", "p">>)
             ELSE f
    IN  [g EXCEPT ![dir] = listing]

\* the urlretrieve calls of a download outcome
Fetches(dir, out) ==
    [k \in 1..Len(out.fetched) |-> [url |-> out.fetched[k], dir |-> dir]]

\* if not download_plugin(...): continue
UpdateSkips_never(out) == FALSE

UpdateSkips(out) == ~out.ok

\* one round of the loop of update_plugin
update_plugin_target ==
    /\ pc = "target"
    /\ PluginFunction(mode) = "update_plugin"
    /\ ti <= Len(loc.targets)
    /\ \E target \in {loc.targets[ti]} :
       \E dir \in {TargetDir(target)} :
       \E f1 \in {_ensure_dir(fs, dir)} :
       \E installed_version \in {get_installed_version(f1[dir], loc.cleanup_globs)} :
       LET seen(branch, removed, dl, wrote) ==
               [plugin |-> loc.plugin_name, target |-> dir,
                installed |-> installed_version, other |-> loc.latest_version,
                branch |-> branch, removed |-> removed, dl |-> dl, wrote |-> wrote]
       IN  /\ t' = target
           /\ IF UpdateRaises(installed_version, loc.latest_version)
              THEN /\ pc' = "crashed"
                   /\ exc' = "TypeError"
                   /\ fs' = f1
                   /\ last' = seen("raise", <<>>, "none", FALSE)
                   /\ UNCHANGED <<logs, downloads, cfg, ini>>
              ELSE IF UpdateTaken(installed_version, loc.latest_version, loc.latest_url)
              THEN \E out \in DownloadOutcomes(loc.latest_url, basename(loc.latest_url)) :
                   \E l2 \in WithFiles(Cleaned(f1[dir], loc.cleanup_globs), out.files) :
                      /\ fs' = LogFs(AfterDownload(f1, dir, l2, out), loc.plugin_name)
                      /\ downloads' = downloads \o Fetches(dir, out)
                      /\ pc' = pc
                      /\ exc' = exc
                      /\ IF UpdateSkips(out)
                         THEN /\ logs' = logs \o DownloadLines(loc.plugin_name, dir,
                                                               loc.latest_url, out)
                              /\ UNCHANGED <<cfg, ini>>
                              /\ last' = seen("update",
                                              Removed(f1[dir], loc.cleanup_globs),
                                              IF out.ok THEN "ok" ELSE "failed", FALSE)
                         ELSE /\ logs' = logs
                                   \o DownloadLines(loc.plugin_name, dir, loc.latest_url, out)
                                   \o <<IF installed_version = None
                                        THEN Line(loc.plugin_name, dir, "installing",
                                                  loc.latest_version, None)
                                        ELSE Line(loc.plugin_name, dir, "updated",
                                                  installed_version, loc.latest_version),
                                        Line(loc.plugin_name, dir,
                                             "version updated in config to",
                                             NormOrNone(loc.latest_version), None)>>
                              /\ cfg' = [cfg EXCEPT ![pi].opts.url = loc.latest_url]
                              /\ ini' = WriteIni(ini, loc.plugin_name, cfg'[pi].opts)
                              /\ last' = seen("update",
                                              Removed(f1[dir], loc.cleanup_globs),
                                              IF out.ok THEN "ok" ELSE "failed", TRUE)
              ELSE /\ fs' = LogFs(f1, loc.plugin_name)
                   /\ logs' = Append(logs, Line(loc.plugin_name, dir, "already up-to-date",
                                                NormOrNone(installed_version), None))
                   /\ last' = seen("noop", <<>>, "none", FALSE)
                   /\ UNCHANGED <<pc, exc, downloads, cfg, ini>>
    /\ ti' = ti + 1
    /\ UNCHANGED <<mode, only, rc, pi, loc, lookups, resolved, extracted, fin, fout>>

\* sync_plugin up to its loop; it returns at once without a configured URL
sync_plugin_begin ==
    /\ pc = "plugin"
    /\ PluginFunction(mode) = "sync_plugin"
    /\ LET plugin_name == cfg[pi].key
           plugin_cfg == cfg[pi].opts
       IN  /\ loc' = [plugin_name |-> plugin_name,
                      targets |-> ParseTargets(plugin_cfg),
                      cleanup_globs |-> GlobsOf(plugin_cfg),
                      config_version |-> get_config_version(plugin_cfg.url, plugin_name),
                      url |-> plugin_cfg.url,
                      latest_url |-> None,
                      latest_version |-> None]
           /\ t' = Unbound
           /\ ti' = 1
           /\ IF ~Truthy(plugin_cfg.url)
              THEN /\ logs' = Append(logs, Line(plugin_name, None,
                                                "No URL in config, skipping.", None, None))
                   /\ fs' = LogFs(fs, plugin_name)
                   /\ pi' = pi + 1
                   /\ pc' = AfterPlugin(cfg, pi + 1)
              ELSE /\ pc' = "target"
                   /\ UNCHANGED <<logs, fs, pi>>
    /\ UNCHANGED <<mode, only, exc, rc, ini, cfg, lookups, resolved, downloads, extracted,
                   last, fin, fout>>

\* one round of the loop of sync_plugin
sync_plugin_target ==
    /\ pc = "target"
    /\ PluginFunction(mode) = "sync_plugin"
    /\ ti <= Len(loc.targets)
    /\ \E target \in {loc.targets[ti]} :
       \E dir \in {TargetDir(target)} :
       \E f1 \in {_ensure_dir(fs, dir)} :
       \E installed_version \in {get_installed_version(f1[dir], loc.cleanup_globs)} :
       LET seen(branch, removed, dl) ==
               [plugin |-> loc.plugin_name, target |-> dir,
                installed |-> installed_version, other |-> loc.config_version,
                branch |-> branch, removed |-> removed, dl |-> dl, wrote |-> FALSE]
       IN  /\ t' = target
           /\ IF SyncTaken(installed_version, loc.config_version)
              THEN \E out \in DownloadOutcomes(loc.url, basename(loc.url)) :
                   \E l2 \in WithFiles(Cleaned(f1[dir], loc.cleanup_globs), out.files) :
                      /\ fs' = LogFs(AfterDownload(f1, dir, l2, out), loc.plugin_name)
                      /\ downloads' = downloads \o Fetches(dir, out)
                      /\ logs' = logs
                           \o DownloadLines(loc.plugin_name, dir, loc.url, out)
                           \o <<IF ~out.ok
                                THEN Line(loc.plugin_name, dir, "failed to download",
                                          loc.config_version, None)
                                ELSE IF installed_version = None
                                THEN Line(loc.plugin_name, dir, "installing",
                                          loc.config_version, None)
                                ELSE Line(loc.plugin_name, dir, "updated",
                                          installed_version, loc.config_version)>>
                      /\ last' = seen("sync", Removed(f1[dir], loc.cleanup_globs),
                                      IF out.ok THEN "ok" ELSE "failed")
              ELSE /\ fs' = LogFs(f1, loc.plugin_name)
                   /\ logs' = Append(logs, Line(loc.plugin_name, dir, "already in sync",
                                                loc.config_version, None))
                   /\ last' = seen("in sync", <<>>, "none")
                   /\ UNCHANGED downloads
    /\ ti' = ti + 1
    /\ UNCHANGED <<mode, only, pc, exc, rc, ini, cfg, pi, loc, lookups, resolved,
                   extracted, fin, fout>>

\* the per-plugin function returns after its last target
plugin_return ==
    /\ pc = "target"
    /\ ti > Len(loc.targets)
    /\ pi' = pi + 1
    /\ \E after \in {AfterPlugin(cfg, pi + 1)} :
          /\ pc' = after
          /\ rc' = IF after = "done" THEN 0 ELSE rc
    /\ UNCHANGED <<mode, only, exc, ini, cfg, loc, ti, t, fs, logs, lookups, resolved,
                   downloads, extracted, last, fin, fout>>

\* the jars os.walk finds under the base directory: <<directory, file>>
JarsUnder(f) ==
    UNION {{<<d, n>> : n \in {m \in Range(f[d]) : EndsWith(m, ExtJar)}} : d \in DOMAIN f}

\* the directory extract_configs fills for a jar, named after the file when
\* the archive names no plugin: os.path.basename(jar_path).split('-')[0]
ConfigDir(df) == df[1] \o <<"/">> \o split(df[2], "-")[1]

\* process_all_plugins(): the final sweep of update and sync over every jar
\* below the working directory.  extract_configs opens each archive outside any
\* try: whether a file the run fetched is an archive is the remote's choice.
process_all_plugins ==
    /\ pc = "sweep"
    /\ \E jars \in {JarsUnder(fs)} :
       \E todo \in {{df \in jars : lower(split(df[2], "-")[1]) # Bluemap}} :
           \/ /\ extracted' = jars
              /\ fs' = [d \in DOMAIN fs \cup {ConfigDir(df) : df \in todo} |->
                           IF d \in DOMAIN fs THEN fs[d] ELSE <<>>]
              /\ pc' = "done"
              /\ rc' = 0
              /\ exc' = exc
           \/ /\ todo # {}
              /\ \E df \in todo : extracted' = {df}
              /\ pc' = "crashed"
              /\ exc' = "BadZipFile"
              /\ UNCHANGED <<fs, rc>>
    /\ UNCHANGED <<mode, only, ini, cfg, pi, loc, ti, t, logs, lookups, resolved,
                   downloads, last, fin, fout>>

Next ==
    \/ main
    \/ discover_plugin_begin
    \/ discover_plugin_target
    \/ update_plugin_begin
    \/ update_plugin_target
    \/ sync_plugin_begin
    \/ sync_plugin_target
    \/ plugin_return
    \/ process_all_plugins

Spec == Init /\ [][Next]_vars

(***************************************************************************)
(* The functions on their own: an input is drawn, the function is applied  *)
(***************************************************************************)
\* the variables of a run, at rest while a function is exercised alone
runVars ==
    <<mode, only, exc, rc, ini, cfg, pi, loc, ti, t, fs, logs, lookups, resolved,
      downloads, extracted, last>>

NoRun ==
    /\ mode = "none"
    /\ only = None
    /\ exc = ""
    /\ rc = -1
    /\ ini = <<>>
    /\ cfg = <<>>
    /\ pi = 0
    /\ loc = NoLoc
    /\ ti = 0
    /\ t = Unbound
    /\ fs = NoFs
    /\ logs = <<>>
    /\ lookups = 0
    /\ resolved = <<>>
    /\ downloads = <<>>
    /\ extracted = {}
    /\ last = NoLast

\* the sequences over S of length at most n
RECURSIVE SeqsUpTo(_, _)
SeqsUpTo(S, n) ==
    IF n = 0 THEN {<<>>}
    ELSE SeqsUpTo(S, n - 1)
           \cup {Append(q, x) : q \in {r \in SeqsUpTo(S, n - 1) : Len(r) = n - 1}, x \in S}

\* a directory lists each of its files once
DirListings(S, n) ==
    {l \in SeqsUpTo(S, n) : \A i, j \in 1..Len(l) : i # j => l[i] # l[j]}

GlobAny == <<"*">>

FilePool == {File120, File130, FilePlain, FileZip130, FileBeta, FileOther, FileSpigot120}

GlobLists == {<<>>, ParseGlobs(FooGlobs), ParseGlobs(FooGlobsJarFirst), <<GlobAny>>}

InstalledInit ==
    /\ NoRun
    /\ pc = "call"
    /\ fin \in {[listing |-> l, cleanup_globs |-> g] :
                   l \in DirListings(FilePool, MaxListing), g \in GlobLists}
    /\ fout = Unbound

\* get_installed_version(plugin_name, target_dir, cleanup_globs) on a target
\* directory with the listing drawn
get_installed_version_call ==
    /\ pc = "call"
    /\ fout' = get_installed_version(fin.listing, fin.cleanup_globs)
    /\ pc' = "returned"
    /\ UNCHANGED <<fin, runVars>>

SpecInstalled == InstalledInit /\ [][get_installed_version_call]_vars

AssetSpigot == <<"F", "o", "o", "-", "S", "p", "i", "g", "o", "t", ".", "j", "a", "r">>
AssetBukkit == <<"f", "o", "o", "-", "b", "u", "k", "k", "i", "t", ".", "j", "a", "r">>
AssetPaper == <<"f", "o", "o", "-", "p", "a", "p", "e", "r", ".", "j", "a", "r">>
AssetPlain == <<"f", "o", "o", ".", "j", "a", "r">>
AssetCli == <<"f", "o", "o", "-", "c", "l", "i", ".", "j", "a", "r">>
AssetZip == <<"f", "o", "o", "-", "s", "p", "i", "g", "o", "t", ".", "z", "i", "p">>

\* the asset names of the releases drawn
AssetLists ==
    {<<>>, <<AssetPlain>>, <<AssetPaper, AssetSpigot>>, <<AssetSpigot, AssetBukkit>>,
     <<AssetCli, AssetZip>>, <<AssetPlain, AssetPaper>>}

ReleaseShapes == {[prerelease |-> p, names |-> a] : p \in BOOLEAN, a \in AssetLists}

\* the i-th release of a response: the download URL of an asset names its
\* release, so that no two assets of a response share one
ReleaseAt(i, shape) ==
    [prerelease |-> shape.prerelease,
     assets |-> [k \in 1..Len(shape.names) |->
                    [name |-> shape.names[k],
                     browser_download_url |->
                         Host \o <<DigitChars[i + 1], "/">> \o shape.names[k]]]]

ReleaseLists ==
    {[i \in 1..Len(q) |-> ReleaseAt(i, q[i])] : q \in SeqsUpTo(ReleaseShapes, MaxReleases)}

GithubInit ==
    /\ NoRun
    /\ pc = "call"
    /\ fin \in {[repo_url |-> u, beta |-> b, r |-> [ok |-> k, releases |-> rs]] :
                   u \in {SrcGithub, SrcGithubBad}, b \in BOOLEAN, k \in BOOLEAN,
                   rs \in ReleaseLists}
    /\ fout = Unbound

\* github_latest(repo_url, beta) with the answer drawn
github_latest_call ==
    /\ pc = "call"
    /\ fout' = github_latest(fin.repo_url, fin.beta, fin.r)
    /\ pc' = "returned"
    /\ UNCHANGED <<fin, runVars>>

SpecGithub == GithubInit /\ [][github_latest_call]_vars

(***************************************************************************)
(* What the claims read                                                    *)
(***************************************************************************)
\* what a directory lists, nothing when it does not exist
Listing(f, dir) == IF dir \in DOMAIN f THEN f[dir] ELSE <<>>

\* the directory of the target the per-target loop stands at
AtDir == TargetDir(loc.targets[ti])

\* what get_installed_version reads in the target the loop stands at
AtInstalled == get_installed_version(Listing(fs, AtDir), loc.cleanup_globs)

\* a step is one round of a per-target loop
TargetRound == pc = "target" /\ ti' = ti + 1

\* the lines a step logs
Said == SubSeq(logs', Len(logs) + 1, Len(logs'))

\* the urlretrieve calls of a step
Fetched == SubSeq(downloads', Len(downloads) + 1, Len(downloads'))

\* the kinds of the lines a step logs
SaidKinds == {Said[k].kind : k \in 1..Len(Said)}

\* the file system without the log directory
WithoutLogs(f) == [d \in DOMAIN f \ {LogsDir} |-> f[d]]

\* a file of a listing matches one of the cleanup globs
Matches(name, cleanup_globs) ==
    \E k \in 1..Len(cleanup_globs) : GlobMatch(name, cleanup_globs[k])

(***************************************************************************)
(* C1                                                                      *)
(***************************************************************************)
\* C1: in update mode, a round of the per-target loop attempts the download
\* exactly when no version is installed or the numeric tuple of the installed
\* version is strictly less than that of the latest version; when it is not,
\* the round leaves the target directory, the plugin's entry and the config
\* file as they were.
C1_UpdateIffAbsentOrOlder ==
    [][(mode = "update" /\ TargetRound /\ pc' # "crashed") =>
          LET I == version_tuple(NormOrNone(AtInstalled))
              L == version_tuple(NormOrNone(loc.latest_version))
              older == AtInstalled = None \/ TupleLess(I, L)
          IN  /\ (Fetched # <<>>) <=> older
              /\ older => Fetched[1] = [url |-> loc.latest_url, dir |-> AtDir]
              /\ ~older => /\ Listing(fs', AtDir) = Listing(fs, AtDir)
                           /\ cfg' = cfg
                           /\ ini' = ini]_vars

\* C1 witness: an update run replaced an installed version that was older than
\* the latest one and recorded the new URL
C1_Witness ==
    /\ mode = "update"
    /\ last.branch = "update"
    /\ last.installed # None
    /\ last.dl = "ok"
    /\ last.wrote

(***************************************************************************)
(* C2                                                                      *)
(***************************************************************************)
\* C2 as stated: a round of discover_plugin's loop leaves every directory and
\* file under the base directory (its log files aside) and the config file as
\* they were.
C2_DiscoverLeavesFilesAlone ==
    [][(mode = "discover" /\ TargetRound) =>
          (WithoutLogs(fs') = WithoutLogs(fs) /\ ini' = ini)]_vars

(***************************************************************************)
(* C3                                                                      *)
(***************************************************************************)
\* C3: during a sync run get_latest_url is never called and plugin_url.py
\* never runs.
C3_SyncNeverLooksUp == mode = "sync" => (lookups = 0 /\ resolved = <<>>)

\* C3 witness: a sync run ended after it had downloaded a configured URL
C3_Witness ==
    /\ mode = "sync"
    /\ pc = "done"
    /\ downloads # <<>>
    /\ lookups = 0

(***************************************************************************)
(* C4                                                                      *)
(***************************************************************************)
StrategyRank(strategy) ==
    CASE strategy = "modrinth" -> 1
      [] strategy = "github" -> 2
      [] strategy = "hangar" -> 3

\* C4 as stated: in every resolution call the strategies run in the order
\* mod registry, release hosting, plugin hosting, and none runs after one
\* returned a URL.
C4_FixedOrderFirstResult ==
    \A n \in 1..Len(resolved) :
        LET c == resolved[n].calls
        IN  /\ \A i, j \in 1..Len(c) :
                  i < j => StrategyRank(c[i].strategy) <= StrategyRank(c[j].strategy)
            /\ \A i \in 1..Len(c) : Truthy(c[i].result) => i = Len(c)

(***************************************************************************)
(* C5                                                                      *)
(***************************************************************************)
\* the name and the companion name a download into a target can write
Written(url) == {basename(url), basename(CliUrl(url))}

\* C5 (amended): in sync mode, for every target of a plugin with a configured
\* URL: when no version is installed or the installed version, cut at its first
\* hyphen, differs from the configured version cut at its first hyphen, every
\* file matching a cleanup glob is deleted and the configured URL is requested
\* (and after it only the companion CLI jar of a BlueMap jar); the round then
\* logs "failed to download" when the download failed, "installing" when it
\* succeeded and nothing was installed, "updated" otherwise.  When the two cut
\* versions are equal nothing is deleted or requested and the round logs
\* "already in sync".
C5_SyncByNormalizedVersion ==
    [][(mode = "sync" /\ TargetRound) =>
          LET old == Listing(fs, AtDir)
              differs == \/ AtInstalled = None
                         \/ normalize_version(AtInstalled)
                              # normalize_version(loc.config_version)
              failed == "Error downloading plugin" \in SaidKinds
              verdict == Said[Len(Said)]
          IN  IF differs
              THEN /\ Fetched # <<>>
                   /\ Fetched[1] = [url |-> loc.url, dir |-> AtDir]
                   /\ \A k \in 2..Len(Fetched) :
                         /\ IsBluemap(basename(loc.url))
                         /\ Fetched[k] = [url |-> CliUrl(loc.url), dir |-> AtDir]
                   /\ \A i \in 1..Len(old) :
                         (Matches(old[i], loc.cleanup_globs) /\ old[i] \notin Written(loc.url))
                            => old[i] \notin Range(fs'[AtDir])
                   /\ verdict.kind =
                         (IF failed THEN "failed to download"
                          ELSE IF AtInstalled = None THEN "installing" ELSE "updated")
                   /\ verdict.kind = "installing" => verdict.a = loc.config_version
                   /\ verdict.kind = "updated" =>
                         (verdict.a = AtInstalled /\ verdict.b = loc.config_version)
              ELSE /\ Fetched = <<>>
                   /\ fs'[AtDir] = old
                   /\ SaidKinds = {"already in sync"}]_vars

\* C5 witness: a sync round found an installed version that is not the
\* configured one as written, but is once both are cut at the first hyphen, and
\* left the target alone
C5_Witness ==
    /\ mode = "sync"
    /\ last.branch = "in sync"
    /\ last.installed # last.other
    /\ downloads = <<>>

\* C5 as stated: the round deletes and downloads exactly the configured URL,
\* logging "installing" or "updated", whenever the installed version is absent or
\* differs from the version of the configured URL, and does nothing when the
\* two are equal.
C5_SyncByVersionAsWritten ==
    [][(mode = "sync" /\ TargetRound) =>
          LET old == Listing(fs, AtDir)
              differs == AtInstalled = None \/ AtInstalled # loc.config_version
              verdict == Said[Len(Said)]
          IN  IF differs
              THEN /\ Fetched = <<[url |-> loc.url, dir |-> AtDir]>>
                   /\ \A i \in 1..Len(old) :
                         (Matches(old[i], loc.cleanup_globs) /\ old[i] \notin Written(loc.url))
                            => old[i] \notin Range(fs'[AtDir])
                   /\ verdict.kind = (IF AtInstalled = None THEN "installing" ELSE "updated")
              ELSE /\ Fetched = <<>>
                   /\ fs'[AtDir] = old]_vars

(***************************************************************************)
(* C6                                                                      *)
(***************************************************************************)
\* C6 as stated: when plugin_url.py exits non-zero in a discover or update run,
\* no exception reaches the top level: the run goes on to the plugin's targets.
C6_NoUrlIsOnlyLogged ==
    (/\ mode \in {"discover", "update"}
     /\ resolved # <<>>
     /\ resolved[Len(resolved)].rc # 0) => pc # "crashed"

(***************************************************************************)
(* C7                                                                      *)
(***************************************************************************)
\* C7: in update mode a round whose download fails raises nothing: it logs the
\* error, leaves the plugin's entry and the config file as they were, logs no
\* "installing", "updated" or "version updated" line, and the loop goes on to
\* the next target.
C7_FailedDownloadIsSkipped ==
    [][(mode = "update" /\ TargetRound /\ "Error downloading plugin" \in SaidKinds) =>
          /\ pc' = "target"
          /\ exc' = ""
          /\ cfg' = cfg
          /\ ini' = ini
          /\ SaidKinds \cap {"installing", "updated", "version updated in config to"} = {}]_vars

\* C7 witness: an update run ended normally after the download into its last
\* target had failed, the config file being what it was at the start
C7_Witness ==
    /\ mode = "update"
    /\ pc = "done"
    /\ last.dl = "failed"
    /\ ~last.wrote
    /\ rc = 0

(***************************************************************************)
(* C8                                                                      *)
(***************************************************************************)
\* the listing's file a is a match of pattern k whose lower-cased name the
\* file-name pattern parses
Parsed(k, a) ==
    /\ GlobMatch(fin.listing[a], fin.cleanup_globs[k])
    /\ InstalledGroup2(lower(fin.listing[a])) # None

\* pattern k2 with file a2 comes before pattern k with file a in the scan
Before(k2, a2, k, a) == k2 < k \/ (k2 = k /\ a2 < a)

\* C8 (amended): get_installed_version returns none exactly when no file that
\* matches a cleanup glob has a name the file-name pattern parses; otherwise it
\* returns the version of the first such file, the patterns being scanned in
\* their declared order and the files of a pattern in the order the directory
\* lists them: the matches the pattern does not parse are passed over.
C8_FirstParsedMatch ==
    pc = "returned" =>
        LET ks == 1..Len(fin.cleanup_globs)
            as == 1..Len(fin.listing)
        IN  /\ (fout = None) <=> ~\E k \in ks, a \in as : Parsed(k, a)
            /\ \A k \in ks, a \in as :
                  (Parsed(k, a) /\ ~\E k2 \in ks, a2 \in as :
                                        Parsed(k2, a2) /\ Before(k2, a2, k, a))
                     => fout = InstalledGroup2(lower(fin.listing[a]))

\* C8 witness: the first file that matches a glob has a name the pattern
\* does not parse, and the version of a later match is returned
C8_Witness ==
    /\ pc = "returned"
    /\ fout # None
    /\ GlobAll(fin.listing, fin.cleanup_globs) # <<>>
    /\ InstalledGroup2(lower(GlobAll(fin.listing, fin.cleanup_globs)[1])) = None

\* C8 as stated: none exactly when no file matches a cleanup glob, otherwise
\* the version parsed from the first matching file.
C8_NoneIffNoMatch ==
    pc = "returned" =>
        /\ (fout = None) <=> (GlobAll(fin.listing, fin.cleanup_globs) = <<>>)
        /\ GlobAll(fin.listing, fin.cleanup_globs) # <<>> =>
              fout = InstalledGroup2(lower(GlobAll(fin.listing, fin.cleanup_globs)[1]))

(***************************************************************************)
(* C9                                                                      *)
(***************************************************************************)
\* C9 as stated: discover reports "update available" or "not installed" for a
\* target exactly when update_plugin would take its update branch on what
\* discover read there, and "already up-to-date" or "config version mismatch"
\* exactly when it would not.
C9_DiscoverAgreesWithUpdate ==
    (mode = "discover" /\ last.branch # "none") =>
        /\ last.branch \in {"update available", "not installed"}
              <=> UpdateTaken(last.installed, last.other, loc.latest_url)
        /\ last.branch \in {"already up-to-date", "config version mismatch"}
              <=> ~UpdateTaken(last.installed, last.other, loc.latest_url)

(***************************************************************************)
(* C10                                                                     *)
(***************************************************************************)
\* the assets that survive the filters, in the order the loops reach them
Survivors ==
    IF GithubRepoMatches(fin.repo_url) /\ fin.r.ok
    THEN GithubCandidates(fin.r.releases, fin.beta)
    ELSE <<>>

SurvivorPriority(i) == GithubPriority(lower(Survivors[i].name))

\* C10: github_latest returns the download URL of a surviving asset whose
\* priority no surviving asset exceeds and no earlier surviving asset equals;
\* it returns none exactly when no asset survives the filters.
C10_HighestPriorityFirstSeen ==
    pc = "returned" =>
        /\ (fout = None) <=> (Survivors = <<>>)
        /\ Survivors # <<>> =>
              \E i \in 1..Len(Survivors) :
                  /\ fout = Survivors[i].browser_download_url
                  /\ \A j \in 1..Len(Survivors) : SurvivorPriority(j) <= SurvivorPriority(i)
                  /\ \A j \in 1..(i - 1) : SurvivorPriority(j) < SurvivorPriority(i)

\* C10 witness: two surviving assets share the highest priority, an asset of
\* lower priority comes before both, and the first of the two is returned
C10_Witness ==
    /\ pc = "returned"
    /\ \E i, j \in 1..Len(Survivors) :
          /\ 1 < i
          /\ i < j
          /\ SurvivorPriority(1) < SurvivorPriority(i)
          /\ SurvivorPriority(i) = SurvivorPriority(j)
          /\ \A k \in 1..Len(Survivors) : SurvivorPriority(k) <= SurvivorPriority(i)
          /\ fout = Survivors[i].browser_download_url

(***************************************************************************)
(* C11                                                                     *)
(***************************************************************************)
\* a round of a per-target loop whose download succeeded
DownloadedOk == Fetched # <<>> /\ "Error downloading plugin" \notin SaidKinds

\* what get_installed_version reads in the same target once the round is over
AtInstalledAfter == get_installed_version(Listing(fs', AtDir), loc.cleanup_globs)

\* C11 as stated: once a round of sync_plugin's loop has downloaded the
\* configured URL into a target, sync_plugin with the same config on the
\* resulting directory finds the installed version equal to the configured one
\* and takes the "already in sync" branch for that target.
C11_SyncIdempotent ==
    [][(mode = "sync" /\ TargetRound /\ DownloadedOk) =>
          (ini' = ini /\ ~SyncTaken(AtInstalledAfter, loc.config_version))]_vars

(***************************************************************************)
(* C12                                                                     *)
(***************************************************************************)
\* a round of a per-target loop whose download_plugin returned False
DownloadFailed == "Error downloading plugin" \in SaidKinds

\* the files of the target the round leaves behind that match a cleanup glob
MatchingAfter ==
    {k \in 1..Len(Listing(fs', AtDir)) :
        Matches(Listing(fs', AtDir)[k], loc.cleanup_globs)}

\* C12 as stated: in update and in sync, a round of the per-target loop whose
\* download fails leaves the target directory without any file matching a
\* cleanup glob, and in update mode the config entry and the config file
\* still name the previous URL.
C12_FailedDownloadLeavesNoMatch ==
    [][(mode \in {"update", "sync"} /\ TargetRound /\ DownloadFailed) =>
          /\ MatchingAfter = {}
          /\ mode = "update" => (cfg' = cfg /\ ini' = ini)]_vars

=============================================================================
